---- MODULE Spec2Model ----
(***************************************************************************)
(* Model of scripts/build_cafef_zip.py: the date recognizer, the line date *)
(* extractor, the table normalizer, Merge-Dedup, the trading-day prober,   *)
(* the bundle locator, the gap patcher and main.                           *)
(*                                                                         *)
(* A text (token, line) is a sequence of one-character strings.  A CSV     *)
(* file is a record [exists, lines]: lines is what read_text().splitlines()*)
(* gives.  Python's None is NoDate (the empty text), which is falsy in the *)
(* source exactly like None.                                               *)
(***************************************************************************)
EXTENDS Integers, Sequences, FiniteSets, TLC

VARIABLES
  tok_in,     \* recognizer harness: the token handed to parse_any_date_token
  tok_out,    \* recognizer harness: <<"pending">> or <<"returned", result>>
  m_upto,     \* merge harness: the cumulative CSV file on disk
  m_hist,     \* merge harness: one record per merge_daily_into_upto call made
  p_pc,       \* patcher: "start", "loop", "returned" or "raised"
  p_files,    \* patcher: the four cumulative CSV files of extract_dir
  p_expected, \* patcher: expected_last_trade_date_iso
  p_before,   \* patcher: upto_max_before
  p_day,      \* patcher: day, the loop variable
  p_patched,  \* patcher: patched_days
  p_appended, \* patcher: appended_rows
  p_report,   \* patcher: the dict returned, or the exception raised
  p_visited,  \* patcher, history: the days the loop body ran for, in order
  p_both,     \* patcher, history: the visited days whose two archives both exist
  p_fetched,  \* patcher, history: the daily tables merged, one entry per patched day
  p_files0,   \* patcher, history: the four files as they were at the call
  t_pc,       \* prober: "probing", "returned" or "raised"
  t_today,    \* prober: today, now_gmt7().date()
  t_back,     \* prober: back, the loop variable
  t_probe,    \* prober: CafeF.INDEX.csv of probe_dir
  t_result,   \* prober: the date returned, or the exception raised
  t_log,      \* prober, history: per day probed, the day and whether it qualifies
  l_pc,       \* locator: "probing", "returned" or "raised"
  l_today,    \* locator: today, now_gmt7().date()
  l_back,     \* locator: back, the loop variable
  l_result,   \* locator: the UptoBundle returned, or the exception raised
  l_log,      \* locator, history: per day probed, the day and whether both archives exist
  n_head,     \* network: the head_ok calls made
  n_download, \* network: the download calls made
  ln_in,      \* line harness: the line handed to extract_date_from_line
  ln_out,     \* line harness: <<"pending">> or <<"returned", result>>
  nz_files,   \* normalizer: files, the list extract_dir.rglob("*.csv") gives
  nz_keys,    \* normalizer: required_keys
  nz_out,     \* normalizer: <<"pending">>, <<"returned", copies>> or the exception
  main_pc,    \* main: the step main is at, "done" or "aborted"
  main_expected, \* main: expected_last_trade_date_iso
  main_upto,  \* main: upto, the UptoBundle the locator returned
  main_err,   \* main: the exception that ended the run, if any
  out_zip,    \* main: out/cafef.zip
  out_json    \* main: out/latest.json

tokVars == <<tok_in, tok_out>>

mergeVars == <<m_upto, m_hist>>

patchVars == <<p_pc, p_files, p_expected, p_before, p_day, p_patched, p_appended,
               p_report, p_visited, p_both, p_fetched, p_files0>>

probeVars == <<t_pc, t_today, t_back, t_probe, t_result, t_log>>

locVars == <<l_pc, l_today, l_back, l_result, l_log>>

netVars == <<n_head, n_download>>

lineVars == <<ln_in, ln_out>>

normVars == <<nz_files, nz_keys, nz_out>>

mainVars == <<main_pc, main_expected, main_upto, main_err, out_zip, out_json>>

vars == <<tok_in, tok_out, m_upto, m_hist, p_pc, p_files, p_expected, p_before,
          p_day, p_patched, p_appended, p_report, p_visited, p_both, p_fetched,
          p_files0, t_pc, t_today, t_back, t_probe, t_result, t_log,
          l_pc, l_today, l_back, l_result, l_log, n_head, n_download,
          ln_in, ln_out, nz_files, nz_keys, nz_out,
          main_pc, main_expected, main_upto, main_err, out_zip, out_json>>

----------------------------------------------------------------------------
(* Characters and texts *)

DigitChars == <<"0", "1", "2", "3", "4", "5", "6", "7", "8", "9">>

IsDigit(c) == \E i \in 1..10 : DigitChars[i] = c

DigitVal(c) == (CHOOSE i \in 1..10 : DigitChars[i] = c) - 1

AllDigits(s) == \A i \in 1..Len(s) : IsDigit(s[i])

\* int() of a text of ASCII digits (leading zeros allowed)
RECURSIVE IntOf(_)
IntOf(s) ==
  IF Len(s) = 0 THEN 0
  ELSE 10 * IntOf(SubSeq(s, 1, Len(s) - 1)) + DigitVal(s[Len(s)])

\* f"{n:0{w}d}": at least w digits, zero padded
RECURSIVE Decimal(_)
Decimal(n) ==
  IF n < 10 THEN <<DigitChars[n + 1]>>
  ELSE Decimal(n \div 10) \o <<DigitChars[(n % 10) + 1]>>

RECURSIVE ZeroPad(_, _)
ZeroPad(s, w) == IF Len(s) >= w THEN s ELSE ZeroPad(<<"0">> \o s, w)

Fmt(n, w) == ZeroPad(Decimal(n), w)

NoDate == << >>

Whitespace == {" "}

Quote == {"\""}

\* str.strip(chars): drop the leading and trailing characters that are in chars
RECURSIVE LStrip(_, _)
LStrip(s, chars) ==
  IF Len(s) > 0 /\ s[1] \in chars THEN LStrip(Tail(s), chars) ELSE s

RECURSIVE RStrip(_, _)
RStrip(s, chars) ==
  IF Len(s) > 0 /\ s[Len(s)] \in chars
  THEN RStrip(SubSeq(s, 1, Len(s) - 1), chars) ELSE s

Strip(s, chars) == RStrip(LStrip(s, chars), chars)

----------------------------------------------------------------------------
(* parse_any_date_token *)

IsSep(c) == c \in {"/", "-"}

\* re.match(r"^\d{4}-\d{2}-\d{2}$", tok)
MatchIso(t) ==
  /\ Len(t) = 10
  /\ AllDigits(SubSeq(t, 1, 4)) /\ t[5] = "-"
  /\ AllDigits(SubSeq(t, 6, 7)) /\ t[8] = "-"
  /\ AllDigits(SubSeq(t, 9, 10))

\* re.match(r"^(\d{1,2})[/-](\d{1,2})[/-](\d{4})$", tok) with day group of
\* i digits and month group of j digits
MatchDmyAt(t, i, j) ==
  /\ Len(t) = i + j + 6
  /\ AllDigits(SubSeq(t, 1, i)) /\ IsSep(t[i + 1])
  /\ AllDigits(SubSeq(t, i + 2, i + j + 1)) /\ IsSep(t[i + j + 2])
  /\ AllDigits(SubSeq(t, i + j + 3, i + j + 6))

MatchDmy(t) == \E i \in 1..2, j \in 1..2 : MatchDmyAt(t, i, j)

\* variant: month first
DmyGroupsMonthFirst(t) ==
  LET ij == CHOOSE p \in (1..2) \X (1..2) : MatchDmyAt(t, p[1], p[2])
      i == ij[1]
      j == ij[2]
  IN  [mm   |-> IntOf(SubSeq(t, 1, i)),
       dd   |-> IntOf(SubSeq(t, i + 2, i + j + 1)),
       yyyy |-> IntOf(SubSeq(t, i + j + 3, i + j + 6))]

DmyGroups(t) ==
  LET ij == CHOOSE p \in (1..2) \X (1..2) : MatchDmyAt(t, p[1], p[2])
      i == ij[1]
      j == ij[2]
  IN  [dd   |-> IntOf(SubSeq(t, 1, i)),
       mm   |-> IntOf(SubSeq(t, i + 2, i + j + 1)),
       yyyy |-> IntOf(SubSeq(t, i + j + 3, i + j + 6))]

\* re.match(r"^\d{8}$", tok)
MatchYmd8(t) == Len(t) = 8 /\ AllDigits(t)

InRange(dd, mm) == 1 <= dd /\ dd <= 31 /\ 1 <= mm /\ mm <= 12

IsoText(yyyy, mm, dd) ==
  Fmt(yyyy, 4) \o <<"-">> \o Fmt(mm, 2) \o <<"-">> \o Fmt(dd, 2)

parse_any_date_token(tok0) ==
  LET tok == Strip(Strip(tok0, Whitespace), Quote)
  IN  IF Len(tok) = 0 THEN NoDate
      ELSE IF MatchIso(tok) THEN tok
      ELSE IF MatchDmy(tok)
                /\ InRange(DmyGroups(tok).dd, DmyGroups(tok).mm)
           THEN IsoText(DmyGroups(tok).yyyy, DmyGroups(tok).mm, DmyGroups(tok).dd)
      ELSE IF MatchYmd8(tok)
                /\ InRange(IntOf(SubSeq(tok, 7, 8)), IntOf(SubSeq(tok, 5, 6)))
           THEN IsoText(IntOf(SubSeq(tok, 1, 4)), IntOf(SubSeq(tok, 5, 6)),
                        IntOf(SubSeq(tok, 7, 8)))
      ELSE NoDate

----------------------------------------------------------------------------
(* extract_date_from_line, max_date_in_csv, csv_contains_date *)

\* str.split(","): the fields between the commas (always at least one field)
RECURSIVE SplitComma(_, _)
SplitComma(s, cur) ==
  IF Len(s) = 0 THEN <<cur>>
  ELSE IF Head(s) = "," THEN <<cur>> \o SplitComma(Tail(s), << >>)
  ELSE SplitComma(Tail(s), Append(cur, Head(s)))

\* the last field the recognizer accepts instead of the first
RECURSIVE FirstDateFromRight(_)
FirstDateFromRight(parts) ==
  IF Len(parts) = 0 THEN NoDate
  ELSE LET di == parse_any_date_token(Strip(parts[Len(parts)], Whitespace))
       IN  IF di # NoDate THEN di
           ELSE FirstDateFromRight(SubSeq(parts, 1, Len(parts) - 1))

RECURSIVE FirstDate(_)
FirstDate(parts) ==
  IF Len(parts) = 0 THEN NoDate
  ELSE LET di == parse_any_date_token(Strip(Head(parts), Whitespace))
       IN  IF di # NoDate THEN di ELSE FirstDate(Tail(parts))

extract_date_from_line(line) == FirstDate(SplitComma(line, << >>))

\* ord() of the characters the model's texts are made of
Ord(c) ==
  IF IsDigit(c) THEN 48 + DigitVal(c)
  ELSE CASE c = " " -> 32 [] c = "\"" -> 34 [] c = "," -> 44 [] c = "-" -> 45
         [] c = "/" -> 47 [] c = "A" -> 65 [] c = "B" -> 66 [] c = "C" -> 67
         [] c = "D" -> 68 [] c = "T" -> 84 [] c = "X" -> 88 [] c = "Y" -> 89
         [] c = "Z" -> 90

\* Python's str > str: by code point, a proper prefix being the smaller
RECURSIVE StrGreater(_, _)
StrGreater(a, b) ==
  IF Len(a) = 0 THEN FALSE
  ELSE IF Len(b) = 0 THEN TRUE
  ELSE IF Head(a) = Head(b) THEN StrGreater(Tail(a), Tail(b))
  ELSE Ord(Head(a)) > Ord(Head(b))

MissingFile == [exists |-> FALSE, lines |-> << >>]

File(lines) == [exists |-> TRUE, lines |-> lines]

\* lines[1:]
Body(lines) == SubSeq(lines, 2, Len(lines))

RECURSIVE MaxDateScan(_, _)
MaxDateScan(rest, max_iso) ==
  IF Len(rest) = 0 THEN max_iso
  ELSE LET d == extract_date_from_line(Head(rest))
       IN  IF d = NoDate THEN MaxDateScan(Tail(rest), max_iso)
           ELSE IF max_iso = NoDate \/ StrGreater(d, max_iso)
                THEN MaxDateScan(Tail(rest), d)
                ELSE MaxDateScan(Tail(rest), max_iso)

\* variant: the header line is scanned like a body row
max_date_in_csv_with_header(f) ==
  IF ~f.exists THEN NoDate
  ELSE IF Len(f.lines) < 1 THEN NoDate
  ELSE MaxDateScan(f.lines, NoDate)

max_date_in_csv(f) ==
  IF ~f.exists THEN NoDate
  ELSE IF Len(f.lines) < 2 THEN NoDate
  ELSE MaxDateScan(Body(f.lines), NoDate)

\* variant: the header line is scanned too
csv_contains_date_with_header(f, target_iso) ==
  IF ~f.exists THEN FALSE
  ELSE IF Len(f.lines) < 2 THEN FALSE
  ELSE \E i \in 1..Len(f.lines) : extract_date_from_line(f.lines[i]) = target_iso

csv_contains_date(f, target_iso) ==
  IF ~f.exists THEN FALSE
  ELSE IF Len(f.lines) < 2 THEN FALSE
  ELSE \E i \in 2..Len(f.lines) : extract_date_from_line(f.lines[i]) = target_iso

----------------------------------------------------------------------------
(* merge_daily_into_upto *)

\* variant: no line of the cumulative table is remembered
ExistingTargetLinesNone(upto_lines, target_iso) == {}

\* the set of the body lines of the cumulative table that carry the target date
ExistingTargetLines(upto_lines, target_iso) ==
  {upto_lines[i] : i \in {j \in 2..Len(upto_lines) :
                            extract_date_from_line(upto_lines[j]) = target_iso}}

\* variant: the date of a candidate line is not compared with the target date
RECURSIVE ScanDailyAnyDate(_, _, _, _)
ScanDailyAnyDate(rest, target_iso, seen, acc) ==
  IF Len(rest) = 0 THEN acc
  ELSE LET line == Head(rest)
       IN  IF line \in seen
           THEN ScanDailyAnyDate(Tail(rest), target_iso, seen, acc)
           ELSE ScanDailyAnyDate(Tail(rest), target_iso, seen \cup {line},
                                 Append(acc, line))

\* variant: an appended line is not added to the seen-set
RECURSIVE ScanDailyNoBatchDedup(_, _, _, _)
ScanDailyNoBatchDedup(rest, target_iso, seen, acc) ==
  IF Len(rest) = 0 THEN acc
  ELSE LET line == Head(rest)
       IN  IF extract_date_from_line(line) # target_iso
           THEN ScanDailyNoBatchDedup(Tail(rest), target_iso, seen, acc)
           ELSE IF line \in seen
           THEN ScanDailyNoBatchDedup(Tail(rest), target_iso, seen, acc)
           ELSE ScanDailyNoBatchDedup(Tail(rest), target_iso, seen, Append(acc, line))

\* the loop over daily_lines[1:]: seen is existing_target_lines, acc is to_add
RECURSIVE ScanDaily(_, _, _, _)
ScanDaily(rest, target_iso, seen, acc) ==
  IF Len(rest) = 0 THEN acc
  ELSE LET line == Head(rest)
       IN  IF extract_date_from_line(line) # target_iso
           THEN ScanDaily(Tail(rest), target_iso, seen, acc)
           ELSE IF line \in seen
           THEN ScanDaily(Tail(rest), target_iso, seen, acc)
           ELSE ScanDaily(Tail(rest), target_iso, seen \cup {line}, Append(acc, line))

\* variant: the new lines are written right after the header
WriteMergedNewFirst(upto_lines, to_add) ==
  <<upto_lines[1]>> \o to_add \o Body(upto_lines)

\* out = [header] + upto_lines[1:] + to_add, written back joined by "\n"
WriteMerged(upto_lines, to_add) == <<upto_lines[1]>> \o Body(upto_lines) \o to_add

\* variant: the value returned counts the candidate lines dated the target day
merge_daily_into_upto_counting_candidates(upto, daily, target_iso) ==
  IF ~upto.exists \/ ~daily.exists THEN [file |-> upto, ret |-> 0]
  ELSE IF Len(upto.lines) = 0 \/ Len(daily.lines) < 2 THEN [file |-> upto, ret |-> 0]
  ELSE LET to_add == ScanDaily(Body(daily.lines), target_iso,
                               ExistingTargetLines(upto.lines, target_iso), << >>)
           dated  == {n \in 2..Len(daily.lines) :
                        extract_date_from_line(daily.lines[n]) = target_iso}
       IN  IF Len(to_add) = 0 THEN [file |-> upto, ret |-> 0]
           ELSE [file |-> File(WriteMerged(upto.lines, to_add)),
                 ret |-> Cardinality(dated)]

\* the file left on disk and the value returned
merge_daily_into_upto(upto, daily, target_iso) ==
  IF ~upto.exists \/ ~daily.exists THEN [file |-> upto, ret |-> 0]
  ELSE IF Len(upto.lines) = 0 \/ Len(daily.lines) < 2 THEN [file |-> upto, ret |-> 0]
  ELSE LET to_add == ScanDaily(Body(daily.lines), target_iso,
                               ExistingTargetLines(upto.lines, target_iso), << >>)
       IN  IF Len(to_add) = 0 THEN [file |-> upto, ret |-> 0]
           ELSE [file |-> File(WriteMerged(upto.lines, to_add)), ret |-> Len(to_add)]

----------------------------------------------------------------------------
(* datetime.date: a date is a record [y, m, d] of a day the calendar has *)

MAX_BACK_DAYS_PATCH_GUARD == 21

IsLeap(y) == (y % 4 = 0) /\ ((y % 100 # 0) \/ (y % 400 = 0))

DaysInMonth(y, m) ==
  IF m = 2 THEN (IF IsLeap(y) THEN 29 ELSE 28)
  ELSE IF m \in {4, 6, 9, 11} THEN 30 ELSE 31

RECURSIVE DaysBeforeMonth(_, _)
DaysBeforeMonth(y, m) ==
  IF m = 1 THEN 0 ELSE DaysBeforeMonth(y, m - 1) + DaysInMonth(y, m - 1)

DaysBeforeYear(y) ==
  (y - 1) * 365 + ((y - 1) \div 4) - ((y - 1) \div 100) + ((y - 1) \div 400)

\* date.toordinal()
ToOrdinal(dt) == DaysBeforeYear(dt.y) + DaysBeforeMonth(dt.y, dt.m) + dt.d

\* variant: February always has 28 days
NextDayNoLeap(dt) ==
  IF dt.d < (IF dt.m = 2 THEN 28 ELSE DaysInMonth(dt.y, dt.m))
  THEN [dt EXCEPT !.d = dt.d + 1]
  ELSE IF dt.m < 12 THEN [y |-> dt.y, m |-> dt.m + 1, d |-> 1]
  ELSE [y |-> dt.y + 1, m |-> 1, d |-> 1]

\* date + timedelta(days=1)
NextDay(dt) ==
  IF dt.d < DaysInMonth(dt.y, dt.m) THEN [dt EXCEPT !.d = dt.d + 1]
  ELSE IF dt.m < 12 THEN [y |-> dt.y, m |-> dt.m + 1, d |-> 1]
  ELSE [y |-> dt.y + 1, m |-> 1, d |-> 1]

\* date - timedelta(days=1)
PrevDay(dt) ==
  IF dt.d > 1 THEN [dt EXCEPT !.d = dt.d - 1]
  ELSE IF dt.m > 1 THEN [y |-> dt.y, m |-> dt.m - 1, d |-> DaysInMonth(dt.y, dt.m - 1)]
  ELSE [y |-> dt.y - 1, m |-> 12, d |-> 31]

\* date - timedelta(days=n)
RECURSIVE MinusDays(_, _)
MinusDays(dt, n) == IF n = 0 THEN dt ELSE MinusDays(PrevDay(dt), n - 1)

\* variant: a < b, a > b
DateLEStrict(a, b) == ToOrdinal(a) < ToOrdinal(b)

\* a <= b, a >= b on dates
DateLE(a, b) == ToOrdinal(a) <= ToOrdinal(b)

\* (a - b).days
DaysBetween(a, b) == ToOrdinal(a) - ToOrdinal(b)

\* date.isoformat()
isoformat(dt) == IsoText(dt.y, dt.m, dt.d)

\* d.strftime("%Y%m%d"), d.strftime("%d%m%Y")
yyyymmdd(dt) == Fmt(dt.y, 4) \o Fmt(dt.m, 2) \o Fmt(dt.d, 2)

ddmmyyyy(dt) == Fmt(dt.d, 2) \o Fmt(dt.m, 2) \o Fmt(dt.y, 4)

\* date.fromisoformat(s): a date, or ValueError (ok = FALSE) when the text is
\* not YYYY-MM-DD or names no day of the calendar
iso_to_date(s) ==
  IF ~MatchIso(s) THEN [ok |-> FALSE]
  ELSE LET y == IntOf(SubSeq(s, 1, 4))
           m == IntOf(SubSeq(s, 6, 7))
           d == IntOf(SubSeq(s, 9, 10))
       IN  IF y >= 1 /\ m \in 1..12 /\ d >= 1 /\ d <= DaysInMonth(y, m)
           THEN [ok |-> TRUE, date |-> [y |-> y, m |-> m, d |-> d]]
           ELSE [ok |-> FALSE]

----------------------------------------------------------------------------
(* patch_missing_days_until_expected *)

Kinds == {"HSX", "HNX", "UPCOM", "INDEX"}

\* max(candidates) over the max_date_in_csv of the four files, NoDate when no
\* file has a dated row
MaxOfTexts(S) ==
  IF S = {} THEN NoDate
  ELSE CHOOSE t \in S : \A u \in S : ~StrGreater(u, t)

UptoMax(files) ==
  MaxOfTexts({max_date_in_csv(files[k]) : k \in Kinds} \ {NoDate})

ZeroRows == [k \in Kinds |-> 0]

\* variant: a gap of exactly the threshold is stopped too
GapExceedsGuardInclusive(gap) == gap >= MAX_BACK_DAYS_PATCH_GUARD

\* line 366
GapExceedsGuard(gap) == gap > MAX_BACK_DAYS_PATCH_GUARD

Report(before, after, patched, appended, note) ==
  [upto_max_date_before |-> before, upto_max_date_after |-> after,
   patched_days |-> patched, appended_rows |-> appended, note |-> note]

\* lines 327-375: the baseline, the three early returns, the loop's first day
PatchStart ==
  /\ p_pc = "start"
  /\ LET upto_max_before == UptoMax(p_files)
         expected == iso_to_date(p_expected)
         cur == iso_to_date(upto_max_before)
     IN  /\ p_before' = upto_max_before
         /\ IF upto_max_before = NoDate
            THEN /\ p_pc' = "returned"
                 /\ p_report' = Report(NoDate, NoDate, << >>, ZeroRows, "no_max_date")
                 /\ UNCHANGED p_day
            ELSE IF ~expected.ok \/ ~cur.ok
            THEN /\ p_pc' = "raised"
                 /\ p_report' = <<"ValueError", "iso_to_date">>
                 /\ UNCHANGED p_day
            ELSE IF DateLE(expected.date, cur.date)
            THEN /\ p_pc' = "returned"
                 /\ p_report' = Report(upto_max_before, upto_max_before, << >>,
                                       ZeroRows, "already_complete")
                 /\ UNCHANGED p_day
            ELSE IF GapExceedsGuard(DaysBetween(expected.date, cur.date))
            THEN /\ p_pc' = "returned"
                 /\ p_report' = Report(upto_max_before, upto_max_before, << >>,
                                       ZeroRows, "guard_stop")
                 /\ UNCHANGED p_day
            ELSE /\ p_pc' = "loop"
                 /\ p_day' = NextDay(cur.date)
                 /\ UNCHANGED p_report
  /\ UNCHANGED <<p_files, p_expected, p_patched, p_appended, p_visited, p_both,
                 p_fetched, p_files0>>
  /\ UNCHANGED netVars
  /\ UNCHANGED <<tokVars, mergeVars, probeVars, locVars, lineVars, normVars, mainVars>>

\* variant: the rows of the day before the target day are merged
MergeDayBefore(files, daily, d_iso) ==
  [k \in Kinds |->
     merge_daily_into_upto(files[k], daily[k],
                           isoformat(PrevDay(iso_to_date(d_iso).date)))]

\* lines 395-398: the four merges of one day
MergeDay(files, daily, d_iso) ==
  [k \in Kinds |-> merge_daily_into_upto(files[k], daily[k], d_iso)]

\* lines 376-402: one pass of the loop body for p_day.  The CDN answers the two
\* existence probes (s for the transaction archive, i for the index archive);
\* fetched is what the downloads, the extraction and the normalization give.
PatchDay(s, i, fetched) ==
  /\ p_pc = "loop"
  /\ DateLE(p_day, iso_to_date(p_expected).date)
  /\ p_visited' = Append(p_visited, p_day)
  /\ p_both' = IF s /\ i THEN Append(p_both, p_day) ELSE p_both
  /\ n_head' = n_head + (IF s THEN 2 ELSE 1)
  /\ IF ~(s /\ i)
     THEN /\ p_day' = NextDay(p_day)
          /\ UNCHANGED <<p_pc, p_files, p_patched, p_appended, p_report, p_fetched,
                         n_download>>
     ELSE IF fetched.kind # "ok"
     THEN /\ p_pc' = "raised"
          /\ p_report' = <<"RuntimeError", fetched.kind>>
          /\ n_download' = n_download + (IF fetched.kind = "download_solieu" THEN 1 ELSE 2)
          /\ UNCHANGED <<p_day, p_files, p_patched, p_appended, p_fetched>>
     ELSE LET d_iso == isoformat(p_day)
              r == MergeDay(p_files, fetched.tables, d_iso)
          IN  /\ p_files' = [k \in Kinds |-> r[k].file]
              /\ p_appended' = [k \in Kinds |-> p_appended[k] + r[k].ret]
              /\ p_patched' = Append(p_patched, d_iso)
              /\ p_fetched' = Append(p_fetched, fetched.tables)
              /\ n_download' = n_download + 2
              /\ p_day' = NextDay(p_day)
              /\ UNCHANGED <<p_pc, p_report>>
  /\ UNCHANGED <<p_expected, p_before, p_files0>>
  /\ UNCHANGED <<tokVars, mergeVars, probeVars, locVars, lineVars, normVars, mainVars>>

\* variant: the baseline is not computed again after the loop
PatchFinishNoRecompute ==
  /\ p_pc = "loop"
  /\ ~DateLE(p_day, iso_to_date(p_expected).date)
  /\ p_report' = Report(p_before, p_before, p_patched, p_appended, "OK")
  /\ p_pc' = "returned"
  /\ UNCHANGED <<p_files, p_expected, p_before, p_day, p_patched, p_appended,
                 p_visited, p_both, p_fetched, p_files0>>
  /\ UNCHANGED netVars
  /\ UNCHANGED <<tokVars, mergeVars, probeVars, locVars, lineVars, normVars, mainVars>>

\* lines 376, 404-418: the loop ends, the baseline is computed again
PatchFinish ==
  /\ p_pc = "loop"
  /\ ~DateLE(p_day, iso_to_date(p_expected).date)
  /\ LET after == UptoMax(p_files)
     IN  p_report' = Report(p_before, IF after # NoDate THEN after ELSE p_before,
                            p_patched, p_appended, "OK")
  /\ p_pc' = "returned"
  /\ UNCHANGED <<p_files, p_expected, p_before, p_day, p_patched, p_appended,
                 p_visited, p_both, p_fetched, p_files0>>
  /\ UNCHANGED netVars
  /\ UNCHANGED <<tokVars, mergeVars, probeVars, locVars, lineVars, normVars, mainVars>>

----------------------------------------------------------------------------
(* find_expected_last_trade_date_web *)

LOOKBACK_LAST_TRADE_DAYS == 14

\* the day has a single-day index archive whose INDEX table has a body row dated
\* that day (recorded in the history, not read by the prober)
DayQualifies(exists, fetched, d) ==
  /\ exists
  /\ fetched.kind = "ok"
  /\ fetched.index.exists
  /\ \E n \in 2..Len(fetched.index.lines) :
       extract_date_from_line(fetched.index.lines[n]) = isoformat(d)

\* lines 274-293: one pass of the loop for today - back.  exists is the CDN's
\* answer to the existence probe; fetched is what the download, the extraction
\* and the normalization to INDEX give.
ProbeDay(exists, fetched) ==
  /\ t_pc = "probing"
  /\ t_back <= LOOKBACK_LAST_TRADE_DAYS
  /\ LET d == MinusDays(t_today, t_back)
         d_iso == isoformat(d)
     IN  /\ t_log' = Append(t_log, [day |-> d, qualifies |-> DayQualifies(exists, fetched, d)])
         /\ n_head' = n_head + 1
         /\ IF ~exists
            THEN /\ t_back' = t_back + 1
                 /\ UNCHANGED <<t_pc, t_probe, t_result, n_download>>
            ELSE /\ n_download' = n_download + 1
                 /\ IF fetched.kind # "ok"
                    THEN /\ t_pc' = "raised"
                         /\ t_result' = <<"RuntimeError", fetched.kind>>
                         /\ UNCHANGED <<t_back, t_probe>>
                    ELSE /\ t_probe' = fetched.index
                         /\ IF csv_contains_date(fetched.index, d_iso)
                            THEN /\ t_pc' = "returned"
                                 /\ t_result' = d_iso
                                 /\ UNCHANGED t_back
                            ELSE /\ t_back' = t_back + 1
                                 /\ UNCHANGED <<t_pc, t_result>>
  /\ UNCHANGED t_today
  /\ UNCHANGED <<tokVars, mergeVars, patchVars, locVars, lineVars, normVars, mainVars>>

\* line 295: the window is exhausted
ProbeExhausted ==
  /\ t_pc = "probing"
  /\ t_back > LOOKBACK_LAST_TRADE_DAYS
  /\ t_pc' = "raised"
  /\ t_result' = <<"RuntimeError", "lookback">>
  /\ UNCHANGED <<t_today, t_back, t_probe, t_log>>
  /\ UNCHANGED netVars
  /\ UNCHANGED <<tokVars, mergeVars, patchVars, locVars, lineVars, normVars, mainVars>>

----------------------------------------------------------------------------
(* find_latest_upto_bundle_web *)

MAX_BACK_DAYS_FOR_UPTO == 7

\* the two URLs of a day's cumulative bundle; a URL is kept as its parts:
\* the archive's name, the folder YYYYMMDD, the date DDMMYYYY of the file name
build_upto_urls_for_date(d_iso) ==
  LET d == iso_to_date(d_iso).date
  IN  [solieu |-> <<"CafeF.SolieuGD.Upto", yyyymmdd(d), ddmmyyyy(d)>>,
       index  |-> <<"CafeF.Index.Upto", yyyymmdd(d), ddmmyyyy(d)>>]

UptoBundle(d_iso, urls) ==
  [found_upto_date_iso |-> d_iso, solieu_url |-> urls.solieu, index_url |-> urls.index]

\* variant: one of the two archives is enough
BothHeadOkEither(s, i) == s \/ i

\* line 314: head_ok(solieu_url) and head_ok(index_url)
BothHeadOk(s, i) == s /\ i

\* lines 310-315: one pass of the loop for today - back.  s and i are the CDN's
\* answers for the cumulative transaction archive and the cumulative index archive.
LocateDay(s, i) ==
  /\ l_pc = "probing"
  /\ l_back <= MAX_BACK_DAYS_FOR_UPTO
  /\ LET d == MinusDays(l_today, l_back)
         d_iso == isoformat(d)
     IN  /\ l_log' = Append(l_log, [day |-> d, both |-> s /\ i])
         /\ n_head' = n_head + (IF s THEN 2 ELSE 1)
         /\ IF BothHeadOk(s, i)
            THEN /\ l_pc' = "returned"
                 /\ l_result' = UptoBundle(d_iso, build_upto_urls_for_date(d_iso))
                 /\ UNCHANGED l_back
            ELSE /\ l_back' = l_back + 1
                 /\ UNCHANGED <<l_pc, l_result>>
  /\ UNCHANGED <<l_today, n_download>>
  /\ UNCHANGED <<tokVars, mergeVars, patchVars, probeVars, lineVars, normVars, mainVars>>

\* line 317: the window is exhausted
LocateExhausted ==
  /\ l_pc = "probing"
  /\ l_back > MAX_BACK_DAYS_FOR_UPTO
  /\ l_pc' = "raised"
  /\ l_result' = <<"RuntimeError", "no_upto">>
  /\ UNCHANGED <<l_today, l_back, l_log>>
  /\ UNCHANGED netVars
  /\ UNCHANGED <<tokVars, mergeVars, patchVars, probeVars, lineVars, normVars, mainVars>>

----------------------------------------------------------------------------
(* normalize_files *)

LowerChars ==
  <<"a", "b", "c", "d", "e", "f", "g", "h", "i", "j", "k", "l", "m",
    "n", "o", "p", "q", "r", "s", "t", "u", "v", "w", "x", "y", "z">>

UpperChars ==
  <<"A", "B", "C", "D", "E", "F", "G", "H", "I", "J", "K", "L", "M",
    "N", "O", "P", "Q", "R", "S", "T", "U", "V", "W", "X", "Y", "Z">>

\* str.upper(), character by character
Upper(c) ==
  IF \E i \in 1..26 : LowerChars[i] = c
  THEN UpperChars[CHOOSE i \in 1..26 : LowerChars[i] = c]
  ELSE c

UpperText(t) == [i \in 1..Len(t) |-> Upper(t[i])]

\* sub in t
Contains(t, sub) ==
  \E i \in 1..(Len(t) - Len(sub) + 1) : SubSeq(t, i, i + Len(sub) - 1) = sub

\* t.endswith(sub)
EndsWith(t, sub) ==
  Len(sub) <= Len(t) /\ SubSeq(t, Len(t) - Len(sub) + 1, Len(t)) = sub

\* the text of a key
KeyText(key) ==
  CASE key = "HSX"   -> <<"H", "S", "X">>
    [] key = "HNX"   -> <<"H", "N", "X">>
    [] key = "UPCOM" -> <<"U", "P", "C", "O", "M">>
    [] key = "INDEX" -> <<"I", "N", "D", "E", "X">>

\* lines 105-110
mapping_all(key) == <<"C", "a", "f", "e", "F", ".">> \o KeyText(key) \o <<".", "c", "s", "v">>

\* line 121: the tag in delimited form
NameHasTagDelimited(name, key) ==
  LET u == UpperText(name)
      k == KeyText(key)
  IN  \/ Contains(u, <<".">> \o k \o <<".">>)
      \/ Contains(u, <<".">> \o k \o <<"_">>)
      \/ EndsWith(u, k \o <<".", "C", "S", "V">>)

\* line 124: the tag anywhere in the name
NameHasTag(name, key) == Contains(UpperText(name), KeyText(key))

\* lines 118-124: the positions in files of the candidates of a key, in the
\* order of files
Candidates(files, key) ==
  LET first == {n \in 1..Len(files) : NameHasTagDelimited(files[n].name, key)}
  IN  IF first # {} THEN first
      ELSE {n \in 1..Len(files) : NameHasTag(files[n].name, key)}

\* lines 128-129: cand[0] after the stable sort by size, largest first
LargestFirst(cand, size) ==
  CHOOSE n \in cand :
    \A m \in cand : size[m] < size[n] \/ (size[m] = size[n] /\ n <= m)

\* shutil.copyfile: source and destination are the same file
SameFile(f, out_name) == f.top /\ f.name = out_name

\* lines 117-129: the keys one after the other.  size is what stat() gives for
\* each file of the list as the copies made so far have left it; copied is
\* the file copied for each key done.
RECURSIVE NormalizeKeys(_, _, _, _)
NormalizeKeys(files, keys, size, copied) ==
  IF Len(keys) = 0 THEN <<"returned", copied>>
  ELSE LET key  == Head(keys)
           cand == Candidates(files, key)
       IN  IF cand = {} THEN <<"raised", "RuntimeError", key>>
           ELSE LET src == LargestFirst(cand, size)
                IN  IF SameFile(files[src], mapping_all(key))
                    THEN <<"raised", "SameFileError", key>>
                    ELSE NormalizeKeys(
                           files, Tail(keys),
                           [n \in 1..Len(files) |->
                              IF SameFile(files[n], mapping_all(key))
                              THEN size[src] ELSE size[n]],
                           copied @@ (key :> [name |-> files[src].name,
                                              size |-> size[src]]))

\* lines 98-129
normalize_files(files, required_keys) ==
  IF Len(files) = 0 THEN <<"raised", "RuntimeError", "no_csv">>
  ELSE NormalizeKeys(files, required_keys, [n \in 1..Len(files) |-> files[n].size],
                     << >>)

----------------------------------------------------------------------------
(* Recognizer harness: the tokens handed to parse_any_date_token.          *)
(* A token is one of the textual encodings of a triple (y, m, d), month    *)
(* and day also just outside their ranges, bare or wrapped in blanks or    *)
(* quotes, or one of a few texts that encode no date.                      *)

MaxMonthTried == 13

MaxDayTried == 32

YearsTried == {987, 2024}

TimeParts == {<<"0", "0", "0", "0", "0", "0">>, <<"2", "3", "5", "9", "5", "9">>}

EncIso(y, m, d) == Fmt(y, 4) \o <<"-">> \o Fmt(m, 2) \o <<"-">> \o Fmt(d, 2)

\* day first; w is the minimum width of the day and month fields
EncDmy(y, m, d, sep, w) == Fmt(d, w) \o <<sep>> \o Fmt(m, w) \o <<sep>> \o Fmt(y, 4)

EncYmd8(y, m, d) == Fmt(y, 4) \o Fmt(m, 2) \o Fmt(d, 2)

EncYmd14(y, m, d, hms) == EncYmd8(y, m, d) \o hms

Encodings(y, m, d) ==
  {[enc |-> "iso", text |-> EncIso(y, m, d)],
   [enc |-> "ymd8", text |-> EncYmd8(y, m, d)]}
  \cup {[enc |-> "dmy", text |-> EncDmy(y, m, d, sep, w)] :
          sep \in {"/", "-"}, w \in 1..2}
  \cup {[enc |-> "ymd14", text |-> EncYmd14(y, m, d, hms)] : hms \in TimeParts}

Wrap(text, how) ==
  CASE how = "bare"   -> text
    [] how = "blanks" -> <<" ">> \o text \o <<" ">>
    [] how = "quoted" -> <<"\"">> \o text \o <<"\"">>

RawTokens ==
  { << >>, <<" ">>, <<"\"", "\"">>, <<"A", "A", "A">>,
    <<"1", "2", "3", "4", "5">>,
    <<"1", "5", "/", "0", "3", "-", "2", "0", "2", "4">>,
    <<"1", "5", "/", "0", "3", "/", "2", "4">>,
    <<"2", "0", "2", "4", "/", "0", "3", "/", "1", "5">>,
    <<"2", "0", "2", "4", "-", "3", "-", "1", "5">>,
    <<"\"", " ", "2", "0", "2", "4", "-", "0", "3", "-", "1", "5", "\"">> }

Triples == YearsTried \X (0..MaxMonthTried) \X (0..MaxDayTried)

TokenInputs ==
  UNION {{[enc |-> e.enc, y |-> q[1], m |-> q[2], d |-> q[3], wrap |-> how,
           text |-> Wrap(e.text, how)] :
             e \in Encodings(q[1], q[2], q[3]), how \in {"bare", "blanks", "quoted"}} :
         q \in Triples}
  \cup {[enc |-> "raw", y |-> 0, m |-> 0, d |-> 0, wrap |-> "bare", text |-> t] :
          t \in RawTokens}

Idle == <<"idle">>

TokIdle == tok_in = Idle /\ tok_out = Idle

MergeIdle == m_upto = Idle /\ m_hist = Idle

PatchIdle ==
  /\ p_pc = Idle /\ p_files = Idle /\ p_expected = Idle /\ p_before = Idle
  /\ p_day = Idle /\ p_patched = Idle /\ p_appended = Idle /\ p_report = Idle
  /\ p_visited = Idle /\ p_both = Idle /\ p_fetched = Idle /\ p_files0 = Idle

ProbeIdle ==
  /\ t_pc = Idle /\ t_today = Idle /\ t_back = 0 /\ t_probe = Idle
  /\ t_result = Idle /\ t_log = Idle

LocIdle == l_pc = Idle /\ l_today = Idle /\ l_back = 0 /\ l_result = Idle /\ l_log = Idle

NetIdle == n_head = 0 /\ n_download = 0

LineIdle == ln_in = Idle /\ ln_out = Idle

NormIdle == nz_files = Idle /\ nz_keys = Idle /\ nz_out = Idle

MainIdle ==
  /\ main_pc = Idle /\ main_expected = Idle /\ main_upto = Idle /\ main_err = Idle
  /\ out_zip = Idle /\ out_json = Idle

TokInit ==
  /\ tok_in \in TokenInputs
  /\ tok_out = <<"pending">>
  /\ MergeIdle /\ PatchIdle /\ ProbeIdle /\ LocIdle /\ NetIdle
  /\ LineIdle /\ NormIdle /\ MainIdle

ParseToken ==
  /\ tok_out = <<"pending">>
  /\ tok_out' = <<"returned", parse_any_date_token(tok_in.text)>>
  /\ UNCHANGED tok_in
  /\ UNCHANGED <<mergeVars, patchVars, probeVars, locVars, netVars,
               lineVars, normVars, mainVars>>

TokNext == ParseToken

SpecTok == TokInit /\ [][TokNext]_vars

----------------------------------------------------------------------------
(* Line harness: extract_date_from_line applied to one comma-separated     *)
(* line of up to MaxFields fields.                                         *)

MaxFields == 3

FieldsTried ==
  { << >>, <<"V", "I", "C">>, <<"X", "Y", "Z">>, <<"1", "0", "0", "0", "0">>,
    EncDmy(2024, 3, 15, "/", 2), EncIso(2024, 3, 15),
    Wrap(EncYmd8(2024, 3, 14), "blanks"),
    Wrap(EncDmy(2024, 3, 13, "-", 1), "quoted"),
    Wrap(Wrap(EncIso(2024, 3, 12), "quoted"), "blanks"),
    Wrap(Wrap(EncIso(2024, 3, 11), "blanks"), "quoted"),
    EncDmy(2024, 13, 14, "/", 2) }

\* ",".join(fields)
RECURSIVE JoinComma(_)
JoinComma(fields) ==
  IF Len(fields) = 1 THEN fields[1]
  ELSE fields[1] \o <<",">> \o JoinComma(Tail(fields))

LineInputs ==
  UNION {{[fields |-> fs, line |-> JoinComma(fs)] : fs \in [1..n -> FieldsTried]} :
         n \in 1..MaxFields}

LineInit ==
  /\ ln_in \in LineInputs
  /\ ln_out = <<"pending">>
  /\ TokIdle /\ MergeIdle /\ PatchIdle /\ ProbeIdle /\ LocIdle /\ NetIdle
  /\ NormIdle /\ MainIdle

ExtractLine ==
  /\ ln_out = <<"pending">>
  /\ ln_out' = <<"returned", extract_date_from_line(ln_in.line)>>
  /\ UNCHANGED ln_in
  /\ UNCHANGED <<tokVars, mergeVars, patchVars, probeVars, locVars, netVars,
                 normVars, mainVars>>

SpecLine == LineInit /\ [][ExtractLine]_vars

----------------------------------------------------------------------------
(* Normalizer harness: normalize_files called on a directory of up to      *)
(* MaxDirFiles CSV files, for the index table alone or for the four tables.*)

MaxDirFiles == 3

\* names with a tag in each of the delimited forms, with a tag inside a word,
\* with several tags, with none; the canonical names themselves
NamesTried ==
  { <<"x", ".", "H", "S", "X", ".", "c", "s", "v">>,
    <<"x", ".", "i", "n", "d", "e", "x", "_", "1", ".", "c", "s", "v">>,
    <<"x", "I", "N", "D", "E", "X", ".", "c", "s", "v">>,
    <<"I", "N", "D", "E", "X", "x", ".", "c", "s", "v">>,
    <<"a", ".", "c", "s", "v">>,
    <<"x", ".", "H", "S", "X", ".", "H", "N", "X", ".", "U", "P", "C", "O", "M", ".", "c", "s", "v">>,
    <<"x", ".", "I", "n", "d", "e", "x", ".", "c", "s", "v">>,
    mapping_all("INDEX"), mapping_all("HSX") }

\* a file of the list: its name, its size in bytes, and whether it lies in
\* extract_dir itself (not in a directory below it)
FilesTried ==
  {[name |-> nm, size |-> sz, top |-> TRUE] : nm \in NamesTried, sz \in {1, 2}}
  \cup {[name |-> mapping_all(k), size |-> sz, top |-> FALSE] :
          k \in {"INDEX", "HSX"}, sz \in {1, 2}}

\* lines 289, 393, 445: the two tuples of keys the callers pass
KeysTried == {<<"INDEX">>, <<"HSX", "HNX", "UPCOM", "INDEX">>}

\* no two files of extract_dir itself have the same name
DirsTried ==
  UNION {{fs \in [1..n -> FilesTried] :
            \A i \in 1..n, j \in 1..n :
              (i # j /\ fs[i].top /\ fs[j].top) => fs[i].name # fs[j].name} :
         n \in 0..MaxDirFiles}

NormInit ==
  /\ nz_files \in DirsTried
  /\ nz_keys \in KeysTried
  /\ nz_out = <<"pending">>
  /\ TokIdle /\ MergeIdle /\ PatchIdle /\ ProbeIdle /\ LocIdle /\ NetIdle
  /\ LineIdle /\ MainIdle

Normalize ==
  /\ nz_out = <<"pending">>
  /\ nz_out' = normalize_files(nz_files, nz_keys)
  /\ UNCHANGED <<nz_files, nz_keys>>
  /\ UNCHANGED <<tokVars, mergeVars, patchVars, probeVars, locVars, netVars,
                 lineVars, mainVars>>

SpecNorm == NormInit /\ [][Normalize]_vars

----------------------------------------------------------------------------
(* Merge harness: merge_daily_into_upto called a few times in a row on one *)
(* cumulative file, each time with a candidate file and a target date.     *)

MaxMergeCalls == 2

Row(sym, date_tok) == <<sym, ",">> \o date_tok

Hdr == <<"T", ",", "D">>

LineA15 == Row("A", EncIso(2024, 3, 15))

LineB15 == Row("B", EncDmy(2024, 3, 15, "/", 2))

LineC15 == <<"\"">> \o EncYmd8(2024, 3, 15) \o <<"\"", ",", "C">>

LineA14 == Row("A", EncYmd8(2024, 3, 14))

LineNone == <<"A", ",", "X", "Y", "Z">>

MergeTargets == {EncIso(2024, 3, 15), EncIso(2024, 3, 14)}

UptoInputs ==
  {MissingFile, File(<< >>), File(<<Hdr>>), File(<<Hdr, LineA14>>),
   File(<<Hdr, LineA15>>), File(<<Hdr, LineB15, LineA14, LineB15>>),
   File(<<LineA15>>), File(<<LineA15, LineNone, LineC15>>)}

DailyInputs ==
  {MissingFile, File(<<Hdr>>), File(<<Hdr, LineA15>>),
   File(<<Hdr, LineC15, LineA15, LineNone, LineC15, LineA14, LineB15>>),
   File(<<LineA15, LineB15, LineA14, LineA14>>)}

MergeInit ==
  /\ m_upto \in UptoInputs
  /\ m_hist = << >>
  /\ TokIdle /\ PatchIdle /\ ProbeIdle /\ LocIdle /\ NetIdle
  /\ LineIdle /\ NormIdle /\ MainIdle

MergeCall ==
  /\ Len(m_hist) < MaxMergeCalls
  /\ \E daily \in DailyInputs, target_iso \in MergeTargets :
       LET r == merge_daily_into_upto(m_upto, daily, target_iso)
       IN  /\ m_upto' = r.file
           /\ m_hist' = Append(m_hist, [before |-> m_upto, daily |-> daily,
                                        target |-> target_iso, after |-> r.file,
                                        ret |-> r.ret])
  /\ UNCHANGED <<tokVars, patchVars, probeVars, locVars, netVars,
               lineVars, normVars, mainVars>>

MergeNext == MergeCall

SpecMerge == MergeInit /\ [][MergeNext]_vars

----------------------------------------------------------------------------
(* Patcher harness: patch_missing_days_until_expected called on a freshly  *)
(* normalized cumulative bundle.  The CDN serves single-day archives only  *)
(* for the last MaxServedDays days up to the expected day; what a served   *)
(* day's archives hold is one of a few bundles, or the fetch fails.        *)

MaxServedDays == 3

Unset == <<"unset">>

Day(y, m, d) == [y |-> y, m |-> m, d |-> d]

ExpectedDays == {Day(2024, 3, 15), Day(2024, 3, 1)}

\* the gaps (expected - baseline, in days) the cumulative bundles are built with
GapsTried == {MAX_BACK_DAYS_PATCH_GUARD + 1, MAX_BACK_DAYS_PATCH_GUARD, 2, 1, 0}

\* a cumulative bundle whose latest row is dated b
CumulativeA(b) ==
  [INDEX |-> File(<<Hdr, Row("X", isoformat(PrevDay(b))),
                    Row("X", EncDmy(b.y, b.m, b.d, "/", 2))>>),
   HSX   |-> File(<<Hdr, Row("A", isoformat(b))>>),
   HNX   |-> File(<<Hdr>>),
   UPCOM |-> File(<<Hdr, LineNone>>)]

CumulativeB(b) ==
  [INDEX |-> File(<< >>),
   HSX   |-> File(<<Hdr, Row("A", yyyymmdd(PrevDay(b)))>>),
   HNX   |-> File(<<Hdr, Row("B", yyyymmdd(b)), LineNone>>),
   UPCOM |-> File(<<Hdr>>)]

\* no row of any table carries a date
CumulativeUndated ==
  [INDEX |-> File(<<Hdr, LineNone>>), HSX |-> File(<<Row("A", EncIso(2024, 3, 13))>>),
   HNX |-> File(<<Hdr>>), UPCOM |-> File(<< >>)]

\* the latest row carries a date the recognizer accepts and no calendar has
CumulativeNoSuchDay ==
  [INDEX |-> File(<<Hdr, Row("X", EncIso(2024, 2, 28))>>),
   HSX   |-> File(<<Hdr, Row("A", EncIso(2024, 2, 30))>>),
   HNX   |-> File(<<Hdr>>), UPCOM |-> File(<<Hdr>>)]

CumulativeBundles(e) ==
  {CumulativeA(MinusDays(e, g)) : g \in GapsTried}
  \cup {CumulativeB(MinusDays(e, g)) : g \in GapsTried}
  \cup {CumulativeA(NextDay(e)), CumulativeUndated, CumulativeNoSuchDay}

\* what a single-day bundle of day d may hold once normalized
DailyClean(d) ==
  [INDEX |-> File(<<Hdr, Row("X", isoformat(d))>>),
   HSX   |-> File(<<Hdr, Row("A", isoformat(d)), Row("B", EncDmy(d.y, d.m, d.d, "-", 1))>>),
   HNX   |-> File(<<Hdr, Row("C", yyyymmdd(d))>>),
   UPCOM |-> File(<<Hdr, Row("D", isoformat(d))>>)]

DailyMessy(d) ==
  [INDEX |-> File(<<Hdr, Row("X", yyyymmdd(d)), Row("X", yyyymmdd(d))>>),
   HSX   |-> File(<<Hdr, Row("A", isoformat(d)), Row("A", isoformat(PrevDay(d))),
                    LineNone, Row("A", isoformat(d)), Row("B", isoformat(NextDay(d)))>>),
   HNX   |-> File(<<Hdr>>),
   UPCOM |-> File(<<Row("D", isoformat(d)), Row("D", isoformat(d))>>)]

\* the archive of day d holds the rows of the day before
DailyStale(d) ==
  [INDEX |-> File(<<Hdr, Row("X", isoformat(PrevDay(d)))>>),
   HSX   |-> File(<<Hdr, Row("A", isoformat(PrevDay(d)))>>),
   HNX   |-> File(<<Hdr, Row("C", isoformat(PrevDay(d)))>>),
   UPCOM |-> File(<<Hdr, Row("D", isoformat(PrevDay(d)))>>)]

\* download() raises, unzip_to() raises, normalize_files() raises, or the four
\* normalized daily tables
FetchOutcomes(d) ==
  {[kind |-> k] : k \in {"download_solieu", "download_index", "unzip", "normalize"}}
  \cup {[kind |-> "ok", tables |-> t] : t \in {DailyClean(d), DailyMessy(d), DailyStale(d)}}

NoFetch == [kind |-> "none"]

Served(day, expected_iso) ==
  LET e == iso_to_date(expected_iso).date
  IN  DateLE(day, e) /\ DaysBetween(e, day) < MaxServedDays

PatchInit ==
  /\ p_pc = "start"
  /\ \E e \in ExpectedDays :
       /\ p_expected = isoformat(e)
       /\ p_files \in CumulativeBundles(e)
  /\ p_files0 = p_files
  /\ p_before = Unset /\ p_day = Unset /\ p_report = Unset
  /\ p_patched = << >>
  /\ p_appended = ZeroRows
  /\ p_visited = << >> /\ p_both = << >> /\ p_fetched = << >>
  /\ n_head = 0 /\ n_download = 0
  /\ TokIdle /\ MergeIdle /\ ProbeIdle /\ LocIdle
  /\ LineIdle /\ NormIdle /\ MainIdle

\* one pass of the loop, the CDN and the archives being what they may be
PatchLoop ==
  /\ p_pc = "loop"
  /\ \E s \in BOOLEAN, i \in BOOLEAN :
       /\ (s \/ i) => Served(p_day, p_expected)
       /\ IF s /\ i
          THEN \E fetched \in FetchOutcomes(p_day) : PatchDay(s, i, fetched)
          ELSE PatchDay(s, i, NoFetch)

PatchNext == PatchStart \/ PatchLoop \/ PatchFinish

SpecPatch == PatchInit /\ [][PatchNext]_vars

----------------------------------------------------------------------------
(* Prober and locator harnesses: the functions called on a given day, the  *)
(* CDN answering each existence probe either way and a served index        *)
(* archive holding one of a few INDEX tables, or its fetch failing.        *)

Todays == {Day(2024, 3, 15), Day(2024, 3, 5), Day(2025, 1, 3)}

IndexTables(d) ==
  {File(<<Hdr, Row("X", isoformat(PrevDay(d))), Row("X", isoformat(d))>>),
   File(<<Hdr, LineNone, Row("X", EncDmy(d.y, d.m, d.d, "/", 2))>>),
   File(<<Hdr, Row("X", isoformat(PrevDay(d)))>>),
   File(<<Row("X", isoformat(d))>>),
   File(<<Row("X", isoformat(d)), LineNone>>),
   File(<< >>)}

ProbeOutcomes(d) ==
  {[kind |-> k] : k \in {"download_index", "unzip", "normalize"}}
  \cup {[kind |-> "ok", index |-> t] : t \in IndexTables(d)}

ProbeInit ==
  /\ t_pc = "probing"
  /\ t_today \in Todays
  /\ t_back = 0
  /\ t_probe = MissingFile
  /\ t_result = Unset
  /\ t_log = << >>
  /\ n_head = 0 /\ n_download = 0
  /\ TokIdle /\ MergeIdle /\ PatchIdle /\ LocIdle
  /\ LineIdle /\ NormIdle /\ MainIdle

\* one pass of the prober's loop, the CDN and the archive being what they may be
ProbeLoop ==
  /\ t_pc = "probing"
  /\ t_back <= LOOKBACK_LAST_TRADE_DAYS
  /\ \/ ProbeDay(FALSE, NoFetch)
     \/ \E fetched \in ProbeOutcomes(MinusDays(t_today, t_back)) : ProbeDay(TRUE, fetched)

ProbeNext == ProbeLoop \/ ProbeExhausted

SpecProbe == ProbeInit /\ [][ProbeNext]_vars

LocateInit ==
  /\ l_pc = "probing"
  /\ l_today \in Todays
  /\ l_back = 0
  /\ l_result = Unset
  /\ l_log = << >>
  /\ n_head = 0 /\ n_download = 0
  /\ TokIdle /\ MergeIdle /\ PatchIdle /\ ProbeIdle
  /\ LineIdle /\ NormIdle /\ MainIdle

\* one pass of the locator's loop, the CDN answering either way
LocateLoop == \E s \in BOOLEAN, i \in BOOLEAN : LocateDay(s, i)

LocateNext == LocateLoop \/ LocateExhausted

SpecLocate == LocateInit /\ [][LocateNext]_vars

----------------------------------------------------------------------------
(* main: the run, one action per step.  The prober and the locator are the *)
(* calls SpecProbe and SpecLocate model; here each is one step that        *)
(* returns or raises.  The patcher is called on the tables the             *)
(* normalization leaves in extract_dir and runs as PatchStart, PatchLoop   *)
(* and PatchFinish.  n_head and n_download count the calls of main itself  *)
(* and of the patcher.  No step of main catches an exception: one that is  *)
(* raised ends the run (main_pc = "aborted").                              *)

\* out/cafef.zip or out/latest.json: not there, what an earlier run left, or
\* what this run has written
NoOutput == [written |-> FALSE, content |-> <<"absent">>]

EarlierOutput == [written |-> FALSE, content |-> <<"earlier run">>]

Written(content) == [written |-> TRUE, content |-> content]

NoError == [exc |-> <<"none">>, step |-> "none"]

\* the exception a step raises, with the step that raised it
Raised(exc, step) == [exc |-> exc, step |-> step]

\* lines 424-431: the directories, then Step 1
MainProbe ==
  /\ main_pc = "step1"
  /\ \/ \E e \in ExpectedDays :
          /\ main_expected' = isoformat(e)
          /\ main_pc' = "step2"
          /\ UNCHANGED main_err
     \/ /\ main_err' = Raised(<<"RuntimeError", "lookback">>, "prober")
        /\ main_pc' = "aborted"
        /\ UNCHANGED main_expected
  /\ UNCHANGED <<main_upto, out_zip, out_json>>
  /\ UNCHANGED <<tokVars, mergeVars, patchVars, probeVars, locVars, netVars,
                 lineVars, normVars>>

\* line 434
MainLocate ==
  /\ main_pc = "step2"
  /\ \/ \E d \in ExpectedDays :
          /\ main_upto' = UptoBundle(isoformat(d), build_upto_urls_for_date(isoformat(d)))
          /\ main_pc' = "download"
          /\ UNCHANGED main_err
     \/ /\ main_err' = Raised(<<"RuntimeError", "no_upto">>, "locator")
        /\ main_pc' = "aborted"
        /\ UNCHANGED main_upto
  /\ UNCHANGED <<main_expected, out_zip, out_json>>
  /\ UNCHANGED <<tokVars, mergeVars, patchVars, probeVars, locVars, netVars,
                 lineVars, normVars>>

\* lines 436-439, 60-61: the two downloads of the cumulative bundle;
\* raise_for_status() raises unless the answer is a success
MainDownload ==
  /\ main_pc = "download"
  /\ \E ok_solieu \in BOOLEAN, ok_index \in BOOLEAN :
       IF ~ok_solieu
       THEN /\ n_download' = n_download + 1
            /\ main_err' = Raised(<<"HTTPError", main_upto.solieu_url>>, "download")
            /\ main_pc' = "aborted"
       ELSE IF ~ok_index
       THEN /\ n_download' = n_download + 2
            /\ main_err' = Raised(<<"HTTPError", main_upto.index_url>>, "download")
            /\ main_pc' = "aborted"
       ELSE /\ n_download' = n_download + 2
            /\ main_pc' = "unzip"
            /\ UNCHANGED main_err
  /\ UNCHANGED <<main_expected, main_upto, out_zip, out_json, n_head>>
  /\ UNCHANGED <<tokVars, mergeVars, patchVars, probeVars, locVars, lineVars, normVars>>

\* lines 441-444: the two extractions
MainUnzip ==
  /\ main_pc = "unzip"
  /\ \/ /\ main_pc' = "normalize"
        /\ UNCHANGED main_err
     \/ /\ main_err' = Raised(<<"BadZipFile">>, "extraction")
        /\ main_pc' = "aborted"
  /\ UNCHANGED <<main_expected, main_upto, out_zip, out_json>>
  /\ UNCHANGED <<tokVars, mergeVars, patchVars, probeVars, locVars, netVars,
                 lineVars, normVars>>

\* line 445: normalize_files leaves the four tables in extract_dir, or raises
MainNormalize ==
  /\ main_pc = "normalize"
  /\ \/ /\ p_files' \in CumulativeBundles(iso_to_date(main_expected).date)
        /\ main_pc' = "step3"
        /\ UNCHANGED main_err
     \/ /\ main_err' = Raised(<<"RuntimeError", "normalize">>, "normalization")
        /\ main_pc' = "aborted"
        /\ UNCHANGED p_files
  /\ UNCHANGED <<main_expected, main_upto, out_zip, out_json>>
  /\ UNCHANGED <<p_pc, p_expected, p_before, p_day, p_patched, p_appended, p_report,
                 p_visited, p_both, p_fetched, p_files0>>
  /\ UNCHANGED <<tokVars, mergeVars, probeVars, locVars, netVars, lineVars, normVars>>

\* lines 448-451, 323-342: the patcher is called
MainCallPatch ==
  /\ main_pc = "step3"
  /\ main_pc' = "patching"
  /\ p_pc' = "start"
  /\ p_expected' = main_expected
  /\ p_files0' = p_files
  /\ p_before' = Unset /\ p_day' = Unset /\ p_report' = Unset
  /\ p_patched' = << >>
  /\ p_appended' = ZeroRows
  /\ p_visited' = << >> /\ p_both' = << >> /\ p_fetched' = << >>
  /\ UNCHANGED <<p_files, main_expected, main_upto, main_err, out_zip, out_json>>
  /\ UNCHANGED <<tokVars, mergeVars, probeVars, locVars, netVars, lineVars, normVars>>

\* variant: a run without a baseline is given up
PatcherRaisedOrUndetermined ==
  p_pc = "raised" \/ (p_pc = "returned" /\ p_report.upto_max_date_before = NoDate)

\* lines 448-451: the exception of the patcher is not caught
PatcherRaised == p_pc = "raised"

\* variant: the exception of the patcher is caught and the run goes on
MainPatchEndsCaught ==
  /\ main_pc = "patching"
  /\ p_pc \in {"returned", "raised"}
  /\ main_err' = IF PatcherRaised THEN Raised(p_report, "patcher") ELSE main_err
  /\ main_pc' = "step4"
  /\ UNCHANGED <<main_expected, main_upto, out_zip, out_json>>
  /\ UNCHANGED <<tokVars, mergeVars, patchVars, probeVars, locVars, netVars,
                 lineVars, normVars>>

\* lines 448-451: the patcher returns its report, or its exception ends the run
MainPatchEnds ==
  /\ main_pc = "patching"
  /\ p_pc \in {"returned", "raised"}
  /\ IF PatcherRaised
     THEN /\ main_err' = Raised(p_report, "patcher")
          /\ main_pc' = "aborted"
     ELSE /\ main_pc' = "step4"
          /\ UNCHANGED main_err
  /\ UNCHANGED <<main_expected, main_upto, out_zip, out_json>>
  /\ UNCHANGED <<tokVars, mergeVars, patchVars, probeVars, locVars, netVars,
                 lineVars, normVars>>

\* lines 252-259, 454-455: the archive is opened for writing, then the four
\* tables are added; a table that is not there raises with the archive begun
ZipOrder == <<"HSX", "HNX", "UPCOM", "INDEX">>

make_zip(files) ==
  LET missing == {n \in 1..4 : ~files[ZipOrder[n]].exists}
      added   == IF missing = {} THEN 4
                 ELSE (CHOOSE n \in missing : \A m \in missing : n <= m) - 1
  IN  [ok  |-> missing = {},
       zip |-> Written([n \in 1..added |->
                          [arcname |-> ZipOrder[n], lines |-> files[ZipOrder[n]].lines]])]

MainMakeZip ==
  /\ main_pc = "step4"
  /\ LET z == make_zip(p_files)
     IN  /\ out_zip' = z.zip
         /\ IF z.ok
            THEN main_pc' = "step5" /\ UNCHANGED main_err
            ELSE /\ main_err' = Raised(<<"RuntimeError", "make_zip">>, "make_zip")
                 /\ main_pc' = "aborted"
  /\ UNCHANGED <<main_expected, main_upto, out_json>>
  /\ UNCHANGED <<tokVars, mergeVars, patchVars, probeVars, locVars, netVars,
                 lineVars, normVars>>

\* lines 458-474: latest.json (the run time and the fixed entries left out)
MainWriteLatest ==
  /\ main_pc = "step5"
  /\ out_json' = Written([expected_last_trade_date |-> main_expected,
                          upto_bundle |-> main_upto,
                          patch_report |-> p_report])
  /\ main_pc' = "done"
  /\ UNCHANGED <<main_expected, main_upto, main_err, out_zip>>
  /\ UNCHANGED <<tokVars, mergeVars, patchVars, probeVars, locVars, netVars,
                 lineVars, normVars>>

MainInit ==
  /\ main_pc = "step1"
  /\ main_expected = Unset /\ main_upto = Unset /\ main_err = NoError
  /\ out_zip \in {NoOutput, EarlierOutput}
  /\ out_json = out_zip
  /\ TokIdle /\ MergeIdle /\ PatchIdle /\ ProbeIdle /\ LocIdle /\ NetIdle
  /\ LineIdle /\ NormIdle

MainNext ==
  \/ MainProbe \/ MainLocate \/ MainDownload \/ MainUnzip \/ MainNormalize
  \/ MainCallPatch \/ PatchStart \/ PatchLoop \/ PatchFinish \/ MainPatchEnds
  \/ MainMakeZip \/ MainWriteLatest

SpecMain == MainInit /\ [][MainNext]_vars

\* the statements of main run one after the other: once the patcher has come
\* back, the steps that are left are taken
SpecMainFair ==
  SpecMain /\ WF_vars(MainPatchEnds) /\ WF_vars(MainMakeZip) /\ WF_vars(MainWriteLatest)

----------------------------------------------------------------------------
(* Properties *)

IsPrefix(s, t) == Len(s) <= Len(t) /\ SubSeq(t, 1, Len(s)) = s

RECURSIVE IsSubseq(_, _)
IsSubseq(s, t) ==
  IF Len(s) = 0 THEN TRUE
  ELSE IF Len(t) = 0 THEN FALSE
  ELSE IF Head(s) = Head(t) THEN IsSubseq(Tail(s), Tail(t))
  ELSE IsSubseq(s, Tail(t))

Elems(s) == {s[i] : i \in 1..Len(s)}

\* a file that is a table: it exists and has its header line
IsTable(f) == f.exists /\ Len(f.lines) >= 1

\* the lines a call added at the end of the cumulative file
Appended(c) == SubSeq(c.after.lines, Len(c.before.lines) + 1, Len(c.after.lines))

\* the candidate body lines dated target whose text is not among the lines of
\* the cumulative table's body dated target
DeltaSet(before, daily, target) ==
  {l \in Elems(Body(daily.lines)) :
     /\ extract_date_from_line(l) = target
     /\ ~\E j \in 2..Len(before.lines) :
           /\ before.lines[j] = l
           /\ extract_date_from_line(before.lines[j]) = target}

\* C1: merging the same candidate with the same target twice in a row: the
\* first call appends the true delta rows and returns their number, the second
\* call returns 0 and leaves the cumulative file as it was.
C1_MergeIdempotent ==
  \A i \in 1..(Len(m_hist) - 1) :
    LET a == m_hist[i]
        b == m_hist[i + 1]
    IN  (a.daily = b.daily /\ a.target = b.target) =>
          /\ b.ret = 0
          /\ b.after = b.before
          /\ IsTable(a.before) =>
               /\ a.ret = Cardinality(DeltaSet(a.before, a.daily, a.target))
               /\ Elems(Appended(a)) = DeltaSet(a.before, a.daily, a.target)

C1_Witness ==
  /\ Len(m_hist) = 2
  /\ m_hist[1].daily = m_hist[2].daily
  /\ m_hist[1].target = m_hist[2].target
  /\ m_hist[1].ret >= 2
  /\ Len(m_hist[1].before.lines) >= 2
  /\ m_hist[2].ret = 0

\* C2: a merge only appends: the file before the call (header, then body) is a
\* prefix of the file after it, line for line; the lines after that prefix are
\* in the order they have in the candidate's body; and so the file the run
\* started with is a prefix of the file after any sequence of merges.
C2_MergeAppendOnly ==
  /\ \A i \in 1..Len(m_hist) :
       /\ m_hist[i].after.exists = m_hist[i].before.exists
       /\ IsPrefix(m_hist[i].before.lines, m_hist[i].after.lines)
       /\ IsSubseq(Appended(m_hist[i]), Body(m_hist[i].daily.lines))
  /\ Len(m_hist) >= 1 => IsPrefix(m_hist[1].before.lines, m_upto.lines)

C2_Witness ==
  /\ Len(m_hist) = 2
  /\ Len(m_hist[1].before.lines) >= 3
  /\ m_hist[1].ret >= 2
  /\ m_hist[2].ret >= 1
  /\ m_hist[1].target # m_hist[2].target

\* C3: a merge into a table appends exactly the candidate body lines dated
\* target whose text is not among the table's lines dated target, each distinct
\* text once; lines with another date or with none are not appended; the value
\* returned is the number of lines appended.
C3_MergeAppendsExactlyDelta ==
  \A i \in 1..Len(m_hist) :
    LET c == m_hist[i]
    IN  IsTable(c.before) =>
          /\ Elems(Appended(c)) = DeltaSet(c.before, c.daily, c.target)
          /\ Cardinality(Elems(Appended(c))) = Len(Appended(c))
          /\ \A l \in Elems(Appended(c)) : extract_date_from_line(l) = c.target
          /\ c.ret = Len(Appended(c))
          /\ Len(c.after.lines) = Len(c.before.lines) + c.ret

C3_Witness ==
  /\ Len(m_hist) >= 1
  /\ LET c == m_hist[1]
     IN  /\ c.ret = 2
         /\ \E l \in Elems(c.before.lines) : l \in Elems(Body(c.daily.lines))
                                              /\ extract_date_from_line(l) = c.target
         /\ \E j, k \in 2..Len(c.daily.lines) :
              j # k /\ c.daily.lines[j] = c.daily.lines[k]
              /\ c.daily.lines[j] \in Elems(Appended(c))
         /\ \E l \in Elems(Body(c.daily.lines)) : extract_date_from_line(l) = NoDate
         /\ \E l \in Elems(Body(c.daily.lines)) :
              extract_date_from_line(l) \notin {NoDate, c.target}

\* the patcher has a baseline that is a day of the calendar
HasBaseline == p_pc # "start" /\ p_before # NoDate /\ iso_to_date(p_before).ok

BaselineDay == iso_to_date(p_before).date

ExpectedDay == iso_to_date(p_expected).date

Gap == DaysBetween(ExpectedDay, BaselineDay)

IsCalendarDay(dt) ==
  dt.y >= 1 /\ dt.m \in 1..12 /\ dt.d >= 1 /\ dt.d <= DaysInMonth(dt.y, dt.m)

ReturnedOK == p_pc = "returned" /\ p_report.note = "OK"

\* the loop body has just run for a day whose archives are not both there
SkipStep ==
  /\ p_pc = "loop"
  /\ Len(p_visited') = Len(p_visited) + 1
  /\ p_both' = p_both

C4_VisitedInOrder ==
  HasBaseline =>
    /\ Len(p_visited) <= (IF Gap > 0 THEN Gap ELSE 0)
    /\ \A k \in 1..Len(p_visited) :
         /\ IsCalendarDay(p_visited[k])
         /\ ToOrdinal(p_visited[k]) = ToOrdinal(BaselineDay) + k
    /\ ReturnedOK => (Gap > 0 /\ Gap <= MAX_BACK_DAYS_PATCH_GUARD /\ Len(p_visited) = Gap)
    /\ (Gap > 0 /\ Gap <= MAX_BACK_DAYS_PATCH_GUARD /\ p_pc = "returned") => ReturnedOK
    /\ p_pc = "raised" =>
         /\ Len(p_visited) >= 1 /\ Len(p_both) >= 1
         /\ p_visited[Len(p_visited)] = p_both[Len(p_both)]
    /\ n_download <= 2 * Len(p_both)

C4_SkipGoesOn ==
  SkipStep =>
    /\ p_pc' = "loop"
    /\ p_visited'[Len(p_visited')] = p_day
    /\ ToOrdinal(p_day') = ToOrdinal(p_day) + 1
    /\ UNCHANGED <<p_files, p_patched, p_appended, p_fetched, n_download>>

\* C4: with a baseline B before the expected day E and E - B within the guard,
\* the loop body runs for the days B+1, B+2, ... in this order, each once, and
\* a call that returns has run it for every day up to E; a pass for a day whose
\* archives are not both there downloads nothing, merges nothing and goes on to
\* the next day; the loop is left early only by an exception of a day whose
\* archives are both there.
C4_LoopVisitsEachDayOnce == []C4_VisitedInOrder /\ [][C4_SkipGoesOn]_vars

C4_Witness ==
  /\ ReturnedOK
  /\ Gap = MAX_BACK_DAYS_PATCH_GUARD
  /\ Len(p_visited) = MAX_BACK_DAYS_PATCH_GUARD
  /\ p_visited[1].m # p_visited[Len(p_visited)].m
  /\ Len(p_both) = 1
  /\ Len(p_patched) = 1
  /\ p_both[1] # ExpectedDay

\* C5: a gap above the guard threshold ends the call with the guard-stop report
\* (no patched day, no appended row, the baseline unchanged), with no head_ok and
\* no download call made and the files untouched; a gap of the threshold or less
\* is not guard-stopped: the loop runs.
C5_GuardStopsBeyondThreshold ==
  HasBaseline =>
    /\ Gap > MAX_BACK_DAYS_PATCH_GUARD =>
         /\ p_pc = "returned"
         /\ p_report = Report(p_before, p_before, << >>, ZeroRows, "guard_stop")
         /\ n_head = 0 /\ n_download = 0
         /\ p_visited = << >>
         /\ p_files = p_files0
    /\ (Gap > 0 /\ Gap <= MAX_BACK_DAYS_PATCH_GUARD) =>
         /\ p_pc \in {"loop", "returned", "raised"}
         /\ p_pc = "returned" =>
              (p_report.note = "OK" /\ Len(p_visited) = Gap /\ n_head >= Gap)

C5_Witness ==
  /\ HasBaseline
  /\ Gap = MAX_BACK_DAYS_PATCH_GUARD + 1
  /\ p_pc = "returned"
  /\ p_report.note = "guard_stop"

Mar13 == EncIso(2024, 3, 13)

Mar14 == EncIso(2024, 3, 14)

Mar15 == EncIso(2024, 3, 15)

\* C6: a call that returns from the loop reports as patched_days the days of
\* (B, E] whose two archives both exist, in ascending order; with baseline
\* 2024-03-13, expected 2024-03-15, no archive for 2024-03-14 and an archive for
\* 2024-03-15 with a row dated 2024-03-15 for a table that has its header, the
\* report has patched_days = ["2024-03-15"] and baseline_after = 2024-03-15.
C6_PatchedDaysAreTheAvailableDays ==
  (HasBaseline /\ ReturnedOK) =>
    /\ Len(p_visited) = Gap
    /\ p_report.patched_days = [k \in 1..Len(p_both) |-> isoformat(p_both[k])]
    /\ \A k \in 1..Len(p_both) :
         /\ ToOrdinal(p_both[k]) > ToOrdinal(BaselineDay)
         /\ ToOrdinal(p_both[k]) <= ToOrdinal(ExpectedDay)
         /\ k > 1 => ToOrdinal(p_both[k - 1]) < ToOrdinal(p_both[k])
    /\ p_report.upto_max_date_before = p_before
    /\ ( /\ p_before = Mar13 /\ p_expected = Mar15
         /\ p_both = <<Day(2024, 3, 15)>>
         /\ \E k \in Kinds : /\ csv_contains_date(p_fetched[1][k], Mar15)
                             /\ IsTable(p_files0[k]) )
       => /\ p_report.patched_days = <<Mar15>>
          /\ p_report.upto_max_date_after = Mar15
          /\ Mar14 \notin Elems(p_report.patched_days)

C6_Witness ==
  /\ HasBaseline /\ ReturnedOK
  /\ p_before = Mar13 /\ p_expected = Mar15
  /\ p_both = <<Day(2024, 3, 15)>>
  /\ Len(p_visited) = 2
  /\ p_report.patched_days = <<Mar15>>
  /\ p_report.upto_max_date_after = Mar15

\* the days today, today - 1, ... of the first n passes of a backward walk
WalksBack(log, today) ==
  \A k \in 1..Len(log) :
    /\ IsCalendarDay(log[k].day)
    /\ ToOrdinal(log[k].day) = ToOrdinal(today) - (k - 1)

\* C7: the prober walks back from today one day at a time for at most
\* LOOKBACK_LAST_TRADE_DAYS + 1 days; the date it returns is the first day of
\* the walk that qualifies (index archive there, INDEX table with a body row
\* dated that day), every more recent day not qualifying; it never walks past a
\* day that qualifies; it raises, and returns no date, when it has walked the
\* whole window and no day qualified (or when a fetch fails).
C7_ProberReturnsMostRecentQualifyingDay ==
  /\ WalksBack(t_log, t_today)
  /\ Len(t_log) <= LOOKBACK_LAST_TRADE_DAYS + 1
  /\ \A k \in 1..Len(t_log) :
       t_log[k].qualifies => (k = Len(t_log) /\ t_pc = "returned")
  /\ t_pc = "returned" =>
       /\ Len(t_log) >= 1
       /\ t_log[Len(t_log)].qualifies
       /\ t_result = isoformat(t_log[Len(t_log)].day)
       /\ \E n \in 2..Len(t_probe.lines) :
            extract_date_from_line(t_probe.lines[n]) = t_result
  /\ t_pc = "raised" =>
       /\ t_result[1] = "RuntimeError"
       /\ t_result[2] = "lookback" =>
            /\ Len(t_log) = LOOKBACK_LAST_TRADE_DAYS + 1
            /\ \A k \in 1..Len(t_log) : ~t_log[k].qualifies
  /\ (t_pc = "probing" /\ Len(t_log) = LOOKBACK_LAST_TRADE_DAYS + 1) =>
       t_back > LOOKBACK_LAST_TRADE_DAYS

C7_Witness ==
  /\ t_pc = "returned"
  /\ Len(t_log) = LOOKBACK_LAST_TRADE_DAYS + 1
  /\ t_log[1].day.m # t_log[Len(t_log)].day.m
  /\ n_download >= 3
  /\ n_download < n_head
  /\ t_result = isoformat(MinusDays(t_today, LOOKBACK_LAST_TRADE_DAYS))

\* C8: the locator walks back from today one day at a time for at most
\* MAX_BACK_DAYS_FOR_UPTO + 1 days; the bundle it returns is that of the first
\* day of the walk whose two cumulative archives both exist; a day with only one
\* of the two (or none) is passed; it raises when it has walked the whole window
\* and no day had both.
C8_LocatorReturnsMostRecentCompleteBundle ==
  /\ WalksBack(l_log, l_today)
  /\ Len(l_log) <= MAX_BACK_DAYS_FOR_UPTO + 1
  /\ \A k \in 1..Len(l_log) :
       l_log[k].both <=> (k = Len(l_log) /\ l_pc = "returned")
  /\ l_pc = "returned" =>
       /\ Len(l_log) >= 1
       /\ l_result.found_upto_date_iso = isoformat(l_log[Len(l_log)].day)
       /\ l_result.solieu_url[2] = yyyymmdd(l_log[Len(l_log)].day)
       /\ l_result.index_url[3] = ddmmyyyy(l_log[Len(l_log)].day)
  /\ l_pc = "raised" =>
       /\ Len(l_log) = MAX_BACK_DAYS_FOR_UPTO + 1
       /\ \A k \in 1..Len(l_log) : ~l_log[k].both
  /\ (l_pc = "probing" /\ Len(l_log) = MAX_BACK_DAYS_FOR_UPTO + 1) =>
       l_back > MAX_BACK_DAYS_FOR_UPTO

C8_Witness ==
  /\ l_pc = "returned"
  /\ Len(l_log) = MAX_BACK_DAYS_FOR_UPTO + 1
  /\ n_head > Len(l_log) + 2
  /\ n_head < 2 * Len(l_log)
  /\ l_log[1].day.y # l_log[Len(l_log)].day.y
  /\ l_result.found_upto_date_iso = isoformat(MinusDays(l_today, MAX_BACK_DAYS_FOR_UPTO))

TokReturned == tok_out[1] = "returned"

\* the harness token encodes a triple whose month and day are in range
ValidTriple == tok_in.enc # "raw" /\ tok_in.m \in 1..12 /\ tok_in.d \in 1..31

C10_ReturnedDatesInRange ==
  TokReturned =>
    /\ tok_out[2] # NoDate =>
         InRange(IntOf(SubSeq(tok_out[2], 9, 10)), IntOf(SubSeq(tok_out[2], 6, 7)))
    /\ (tok_in.enc # "raw" /\ ~ValidTriple) => tok_out[2] = NoDate

LineReturned == ln_out[1] = "returned"

\* the fields of the harness line that the recognizer accepts, by position
AcceptedFields ==
  {i \in 1..Len(ln_in.fields) : parse_any_date_token(ln_in.fields[i]) # NoDate}

Text_VIC == <<"V", "I", "C">>

Text_10000 == <<"1", "0", "0", "0", "0">>

\* C11: extract_date_from_line returns the date the recognizer gives for the
\* leftmost comma-separated field it accepts (the field trimmed of blanks and
\* of quote characters), and nothing when it accepts no field:
\* "VIC,15/03/2024,10000" and "2024-03-15,VIC,10000" give 2024-03-15,
\* "VIC,XYZ,10000" gives nothing.
C11_LeftmostAcceptedField ==
  LineReturned =>
    /\ IF AcceptedFields = {}
       THEN ln_out[2] = NoDate
       ELSE LET i == CHOOSE j \in AcceptedFields : \A k \in AcceptedFields : j <= k
            IN  ln_out[2] = parse_any_date_token(ln_in.fields[i])
    /\ ln_in.fields = <<Text_VIC, EncDmy(2024, 3, 15, "/", 2), Text_10000>>
         => ln_out[2] = EncIso(2024, 3, 15)
    /\ ln_in.fields = <<EncIso(2024, 3, 15), Text_VIC, Text_10000>>
         => ln_out[2] = EncIso(2024, 3, 15)
    /\ ln_in.fields = <<Text_VIC, <<"X", "Y", "Z">>, Text_10000>>
         => ln_out[2] = NoDate

\* a line whose first field is no date and whose second and third fields are
\* two different dates, the second one quoted
C11_Witness ==
  /\ LineReturned
  /\ ln_in.line = Text_VIC \o <<",">> \o Wrap(EncDmy(2024, 3, 13, "-", 1), "quoted")
                    \o <<",">> \o EncIso(2024, 3, 15)
  /\ AcceptedFields = {2, 3}
  /\ ln_out[2] = EncIso(2024, 3, 13)

\* the steps whose failure the run does not survive
FatalSteps ==
  {"prober", "locator", "download", "extraction", "normalization", "patcher"}

FailedFatally == main_err.step \in FatalSteps

\* neither output file has been written in this run
OutputsAsBefore == ~out_zip.written /\ ~out_json.written

\* C12: once the prober, the locator, a download, an extraction, the
\* normalization or the patcher has failed, the run is over: the archive and
\* the report have not been written (what an earlier run left is still there)
\* and no step of the run is taken after the failure.
C12_FailureHasAborted == FailedFatally => (main_pc = "aborted" /\ OutputsAsBefore)

C12_FatalErrorAbortsWithoutCommit ==
  []C12_FailureHasAborted /\ [][~FailedFatally]_vars

\* the patcher has patched one day and then failed on the next, the outputs
\* of an earlier run being there
C12_Witness ==
  /\ main_pc = "aborted" /\ main_err.step = "patcher"
  /\ Len(p_patched) = 1 /\ p_files # p_files0
  /\ n_download >= 5
  /\ out_zip = EarlierOutput /\ out_json = EarlierOutput

\* no body row of any of the four tables the patcher was called on has a date
NoDatedBodyRow ==
  \A k \in Kinds : \A n \in 2..Len(p_files0[k].lines) :
    extract_date_from_line(p_files0[k].lines[n]) = NoDate

PatcherEntered ==
  \/ main_pc \in {"patching", "step4", "step5", "done"}
  \/ main_pc = "aborted" /\ main_err.step \in {"patcher", "make_zip"}

Undetermined == PatcherEntered /\ NoDatedBodyRow /\ p_pc = "returned"

\* C13: with no date in any body row of the four tables the patcher returns a
\* report without baseline, with no patched day, all counts zero and a note
\* other than OK, having made no network call and changed no table; the run
\* is not given up and ends with the archive holding the four tables as they
\* were and the report holding that patch report.
C13_UndeterminedState ==
  (PatcherEntered /\ NoDatedBodyRow) =>
    /\ p_pc \in {"start", "returned"}
    /\ main_pc # "aborted"
    /\ n_head = 0 /\ n_download = 2
    /\ p_files = p_files0
    /\ p_pc = "returned" =>
         /\ p_report.upto_max_date_before = NoDate
         /\ p_report.upto_max_date_after = NoDate
         /\ p_report.patched_days = << >>
         /\ \A k \in Kinds : p_report.appended_rows[k] = 0
         /\ p_report.note # "OK"
    /\ main_pc \in {"step5", "done"} =>
         /\ out_zip.written
         /\ Len(out_zip.content) = 4
         /\ \A k \in Kinds : \E n \in 1..4 :
              out_zip.content[n] = [arcname |-> k, lines |-> p_files0[k].lines]
    /\ main_pc = "done" =>
         /\ out_json.written
         /\ out_json.content.patch_report = p_report
         /\ out_json.content.expected_last_trade_date = main_expected

C13_UndeterminedIsNotFatal ==
  []C13_UndeterminedState /\ (Undetermined ~> (main_pc = "done"))

C13_Witness ==
  /\ main_pc = "done" /\ Undetermined
  /\ p_files0 = CumulativeUndated
  /\ out_zip.content[1] = [arcname |-> "HSX", lines |-> <<Row("A", EncIso(2024, 3, 13))>>]
  /\ out_json.content.patch_report.patched_days = << >>

\* the dates of the appended lines of table k, in the order appended
GainedDates(k) ==
  [n \in 1..(Len(p_files[k].lines) - Len(p_files0[k].lines)) |->
     extract_date_from_line(p_files[k].lines[Len(p_files0[k].lines) + n])]

\* a line dated d has been appended to one of the four tables
Gained(d) == \E k \in Kinds : d \in Elems(GainedDates(k))

\* the daily tables merged last hold, for a table that has its header line,
\* a body row dated d
LastFetchedHolds(d) ==
  /\ Len(p_fetched) >= 1
  /\ \E k \in Kinds :
       /\ IsTable(p_files0[k])
       /\ \E n \in 2..Len(p_fetched[Len(p_fetched)][k].lines) :
            extract_date_from_line(p_fetched[Len(p_fetched)][k].lines[n]) = d

\* the numeric key of a normalized date text YYYY-MM-DD
DateKey(t) ==
  IntOf(SubSeq(t, 1, 4)) * 10000 + IntOf(SubSeq(t, 6, 7)) * 100 + IntOf(SubSeq(t, 9, 10))

\* C14 as stated: a call that returns with the note OK reports a
\* baseline_after equal to the expected last trading day.
C14_DoneIsCaughtUp == ReturnedOK => p_report.upto_max_date_after = p_expected

\* C14 as amended: a call that returns with the note OK reports the expected
\* day as baseline_after exactly when a line dated that day was appended,
\* which needs both archives of that day; it does so whenever both archives
\* are there and hold a row dated that day for a table that has its header
\* line.  Otherwise baseline_after is an earlier date, not before
\* baseline_before.
C14_CaughtUpWhenExpectedDayMerged ==
  ReturnedOK =>
    LET after == p_report.upto_max_date_after
    IN  /\ after = p_expected <=> Gained(p_expected)
        /\ Gained(p_expected) => ExpectedDay \in Elems(p_both)
        /\ (ExpectedDay \in Elems(p_both) /\ LastFetchedHolds(p_expected))
             => after = p_expected
        /\ after # p_expected =>
             /\ DateKey(after) < DateKey(p_expected)
             /\ DateKey(p_before) <= DateKey(after)

\* two days patched, the second being the expected day
C14_Witness ==
  /\ ReturnedOK
  /\ Len(p_patched) = 2
  /\ ExpectedDay \in Elems(p_both) /\ LastFetchedHolds(p_expected)
  /\ p_report.upto_max_date_after = p_expected
  /\ p_report.upto_max_date_before # p_expected

\* the dates the extractor gives for the body rows of the four files
DatesOf(files) ==
  UNION {{extract_date_from_line(files[k].lines[n]) : n \in 2..Len(files[k].lines)} :
         k \in Kinds} \ {NoDate}

\* the greatest of them as a date, or nothing when there is none
GreatestDate(files) ==
  IF DatesOf(files) = {} THEN NoDate
  ELSE CHOOSE d \in DatesOf(files) : \A e \in DatesOf(files) : DateKey(e) <= DateKey(d)

\* C15: upto_max_date_before is the greatest date the line extractor gives
\* over the body rows of the four tables (header lines left out, rows and
\* tables without a date passed over), nothing when there is none; after the
\* loop upto_max_date_after is the same over the tables as they then stand.
C15_BaselineIsGreatestBodyDate ==
  /\ p_pc # "start" => p_before = GreatestDate(p_files0)
  /\ p_pc = "returned" => p_report.upto_max_date_before = GreatestDate(p_files0)
  /\ ReturnedOK => p_report.upto_max_date_after = GreatestDate(p_files)

\* the greatest date is in a row that is not the last of its table and is
\* written day first, and lines were appended before the loop ended
C15_Witness ==
  /\ ReturnedOK
  /\ p_files0.HNX.lines[Len(p_files0.HNX.lines)] = LineNone
  /\ p_before = GreatestDate(p_files0)
  /\ p_before = extract_date_from_line(p_files0.HNX.lines[2])
  /\ p_files # p_files0
  /\ p_report.upto_max_date_after # p_before
  /\ p_report.upto_max_date_after = GreatestDate(p_files)

\* the loop has nothing to do: no baseline, a baseline not before the
\* expected day, or a gap beyond the guard
LoopNotDue ==
  /\ p_pc # "start"
  /\ \/ GreatestDate(p_files0) = NoDate
     \/ /\ HasBaseline
        /\ Gap <= 0 \/ Gap > MAX_BACK_DAYS_PATCH_GUARD

\* C16: when the loop does not run (no baseline, baseline on or after the
\* expected day, gap beyond the guard) the call returns with the four tables
\* as they were, no patched day, every count 0 and upto_max_date_after equal
\* to upto_max_date_before, and no pass of the loop has been made.
C16_EarlyExitsTouchNothing ==
  LoopNotDue =>
    /\ p_pc = "returned"
    /\ p_files = p_files0
    /\ p_report.patched_days = << >>
    /\ \A k \in Kinds : p_report.appended_rows[k] = 0
    /\ p_report.upto_max_date_after = p_report.upto_max_date_before
    /\ p_report.note # "OK"
    /\ p_visited = << >> /\ n_head = 0 /\ n_download = 0

\* the baseline is the expected day itself
C16_Witness ==
  /\ LoopNotDue /\ HasBaseline /\ Gap = 0
  /\ p_pc = "returned"
  /\ p_report.upto_max_date_after = p_expected

\* the files of the directory whose upper-cased name has the key's tag between
\* a dot and a dot or an underscore, or right before the extension
DelimitedPool(key) ==
  {n \in 1..Len(nz_files) :
     LET u == UpperText(nz_files[n].name)
     IN  \/ Contains(u, <<".">> \o KeyText(key) \o <<".">>)
         \/ Contains(u, <<".">> \o KeyText(key) \o <<"_">>)
         \/ EndsWith(u, KeyText(key) \o <<".", "C", "S", "V">>)}

\* the files a key is chosen from: the delimited ones, or, only when there
\* is none, those with the tag anywhere in the name
Pool(key) ==
  IF DelimitedPool(key) # {} THEN DelimitedPool(key)
  ELSE {n \in 1..Len(nz_files) : Contains(UpperText(nz_files[n].name), KeyText(key))}

NoCandidate == Len(nz_files) = 0 \/ \E key \in Elems(nz_keys) : Pool(key) = {}

\* C17: normalize_files raises exactly when the directory has no CSV file or
\* a requested key has no candidate after both passes; in every other case
\* it returns, and the file copied for each key is one of the largest of the
\* key's pool (delimited names first, names with the tag anywhere otherwise).
C17_NormalizerCopiesLargestCandidate ==
  nz_out # <<"pending">> =>
    /\ nz_out[1] = "raised" <=> NoCandidate
    /\ nz_out[1] = "returned" =>
         \A key \in Elems(nz_keys) :
           \E n \in Pool(key) :
             /\ nz_out[2][key] = [name |-> nz_files[n].name, size |-> nz_files[n].size]
             /\ \A m \in Pool(key) : nz_files[m].size <= nz_files[n].size

\* the ways a fetch of a day's archives fails
FetchFailures == {"download_solieu", "download_index", "unzip", "normalize"}

\* C18: the patcher raises no exception because of what the tables hold: a
\* call ends by returning its report unless a download, an extraction or a
\* normalization of a day's archives failed.
C18_NeverAbortsOnTableContent ==
  p_pc = "raised" => (p_report[1] = "RuntimeError" /\ p_report[2] \in FetchFailures)

\* C19: for each table appended_rows is the number of lines the table has
\* gained since the call, at every point of the call and in the report
\* returned, and the lines the table had at the call are still its first
\* lines.
C19_AppendedRowsCountGainedLines ==
  \A k \in Kinds :
    /\ IsPrefix(p_files0[k].lines, p_files[k].lines)
    /\ p_appended[k] = Len(p_files[k].lines) - Len(p_files0[k].lines)
    /\ p_pc = "returned" =>
         p_report.appended_rows[k] = Len(p_files[k].lines) - Len(p_files0[k].lines)

\* two days patched, lines gained by some tables and none by another, the
\* daily tables holding lines twice
C19_Witness ==
  /\ ReturnedOK
  /\ Len(p_patched) = 2
  /\ \E n \in 1..2 : p_fetched[n] = DailyMessy(iso_to_date(p_patched[n]).date)
  /\ p_report.appended_rows.HSX >= 2
  /\ p_report.appended_rows.HNX = 0
  /\ p_report.appended_rows.INDEX >= 1

\* every line appended is dated a patched day after the baseline and not
\* after the expected day
AppendedInsideGap ==
  \A k \in Kinds : \A d \in Elems(GainedDates(k)) :
    /\ d # NoDate
    /\ d \in Elems(p_patched)
    /\ DateKey(p_before) < DateKey(d)
    /\ DateKey(d) <= DateKey(p_expected)

HasReportWithBaseline == p_pc = "returned" /\ p_report.upto_max_date_before # NoDate

\* C20 as stated: every appended line is dated a patched day d with
\* baseline_before < d <= expected, and every report returned has
\* baseline_before <= baseline_after <= expected.
C20_ReportInsideGap ==
  /\ AppendedInsideGap
  /\ HasReportWithBaseline =>
       /\ DateKey(p_report.upto_max_date_before) <= DateKey(p_report.upto_max_date_after)
       /\ DateKey(p_report.upto_max_date_after) <= DateKey(p_expected)

\* C20 as amended: every appended line is dated a patched day d with
\* baseline_before < d <= expected; every report returned has
\* baseline_before <= baseline_after, and baseline_after <= expected when
\* baseline_before <= expected.  A baseline after the expected day is
\* reported as it is.
C20_AppendedRowsInsideGap ==
  /\ AppendedInsideGap
  /\ HasReportWithBaseline =>
       /\ DateKey(p_report.upto_max_date_before) <= DateKey(p_report.upto_max_date_after)
       /\ IF DateKey(p_report.upto_max_date_before) <= DateKey(p_expected)
          THEN DateKey(p_report.upto_max_date_after) <= DateKey(p_expected)
          ELSE p_report.upto_max_date_after = p_report.upto_max_date_before

\* the daily tables merged hold rows of the day before and of the day after
\* next to those of the day, and lines were appended
C20_Witness ==
  /\ ReturnedOK
  /\ Len(p_patched) >= 1
  /\ p_fetched[Len(p_fetched)] = DailyMessy(ExpectedDay)
  /\ \E k \in Kinds : Len(GainedDates(k)) >= 1
  /\ p_report.upto_max_date_after = p_expected

====
